---- MODULE Spec2Model ----
(***************************************************************************)
(* Model of the pysbatch_ng job-monitoring supervisor (polling.py):        *)
(* Poller.__enter__ / start_loop / __loop / perform_check / __exit__,      *)
(* together with the lock file and the NORESTART file it shares with the   *)
(* outside world.                                                          *)
(***************************************************************************)
EXTENDS Integers, Sequences, FiniteSets, TLC

\* ------------------------------------------------------------------ bounds
\* most polls one supervisor makes in a run of the single-supervisor model
MaxPolls == 6
\* largest dwell threshold (times_criteria) tried
MaxT == 2
\* most polls one supervisor makes in the two-supervisor model
RacePolls == 2
\* most polls, and the least threshold, of the long-run model of the dwell logic
DwellPolls == 8
DwellT == 2
\* most lines of a status output given to the probe on its own
MaxLines == 2
\* most polls of a supervisor whose surroundings misbehave
EnvPolls == 3
\* most polls of each of two supervisors, one of which may come later
StalePolls == 2
\* most str() calls made on one NodeDict
MaxStr == 2
\* most calls made on the shell
MaxCalls == 4
\* a node list given to parse_nodes: most host groups, most items between
\* the brackets of a group, largest node index
MaxGroups == 2
MaxItems == 2
MaxIndex == 2

\* the two supervisor processes (both use the same lock-file path and cwd)
Procs == {1, 2}

\* ------------------------------------------------------ dumbdata.py: SStates
SStates ==
    { "BOOT_FAIL", "CANCELLED", "COMPLETED", "CONFIGURING", "COMPLETING",
      "DEADLINE", "FAILED", "NODE_FAIL", "OUT_OF_MEMORY", "PENDING",
      "PREEMPTED", "RUNNING", "RESV_DEL_HOLD", "REQUEUE_FED", "REQUEUE_HOLD",
      "REQUEUED", "RESIZING", "REVOKED", "SIGNALING", "SPECIAL_EXIT",
      "STAGE_OUT", "STOPPED", "SUSPENDED", "TIMEOUT", "UNKNOWN_STATE" }

\* (variant: TIMEOUT listed among the failure states too)
failure_states_with_timeout ==
    { "BOOT_FAIL", "DEADLINE", "NODE_FAIL", "OUT_OF_MEMORY", "STOPPED",
      "FAILED", "CANCELLED", "TIMEOUT" }

failure_states ==
    { "BOOT_FAIL", "DEADLINE", "NODE_FAIL", "OUT_OF_MEMORY", "STOPPED",
      "FAILED", "CANCELLED" }

states_to_end == { "COMPLETED", "TIMEOUT" }

\* ------------------------------------------------ the status query's output
\* A line of the sacct output is a record [digits, jid, tok]: digits says
\* whether the text before the first bar is all digits (it is not on a
\* job-step line such as "1.batch|COMPLETED|"), jid is the job number it
\* starts with, tok is the text between the first and the second bar.
JobIds == {1, 2}

\* tokens the status query is made to print: names of the enumeration, a
\* word that is no name of it, and an empty field
ProbeTokens ==
    { "PENDING", "RUNNING", "SUSPENDED", "COMPLETED", "TIMEOUT", "FAILED",
      "NODE_FAIL", "UNKNOWN_STATE", "FOO", "" }

\* the tokens of ProbeTokens and SStates that the class [a-zA-Z]+ matches:
\* non-empty, letters only (an underscore is not a letter)
LettersOnly ==
    { "CANCELLED", "COMPLETED", "CONFIGURING", "COMPLETING", "DEADLINE",
      "FAILED", "PENDING", "PREEMPTED", "RUNNING", "REQUEUED", "RESIZING",
      "REVOKED", "SIGNALING", "STOPPED", "SUSPENDED", "TIMEOUT", "FOO" }

Lines == [digits : BOOLEAN, jid : JobIds, tok : ProbeTokens]

\* what the probe's try block ends with when wexec or SStates(...) raises
RAISE == "RAISE"

\* (variant: the pattern has no ^\d+ in front)
LineMatches_no_digits(line) == line.tok \in LettersOnly

\* re.match(r"^\d+\|[a-zA-Z]+\|$", line)
LineMatches(line) == line.digits /\ line.tok \in LettersOnly

\* SStates(token): the member with that value, ValueError when there is none
SStatesOf(tok) == IF tok \in SStates THEN tok ELSE RAISE

\* (variant: the for loop keeps the last matching line)
FirstMatch_last(bout) ==
    LET m == { i \in DOMAIN bout : LineMatches(bout[i]) }
    IN  IF m = {} THEN "UNKNOWN_STATE"
        ELSE SStatesOf(bout[CHOOSE i \in m : \A j \in m : j <= i].tok)

\* the for loop of Poller.perform_check over bout.splitlines()
RECURSIVE FirstMatch(_)
FirstMatch(bout) ==
    IF bout = <<>> THEN "UNKNOWN_STATE"
    ELSE IF LineMatches(Head(bout)) THEN SStatesOf(Head(bout).tok)
    ELSE FirstMatch(Tail(bout))

\* Poller.perform_check on what wexec did (r.raised: the query failed;
\* r.bout: the lines it printed): the state assigned to self.state, or RAISE,
\* and then self.state is left as it was
perform_check(r) == IF r.raised THEN RAISE ELSE FirstMatch(r.bout)

\* what wexec is made to do at a poll: fail, print nothing, print one line
\* (of either job, or a job-step line), or print a job-step line and then a
\* line of job 1
ProbeResults ==
    { [raised |-> TRUE, bout |-> <<>>], [raised |-> FALSE, bout |-> <<>>],
      [raised |-> FALSE,
       bout |-> <<[digits |-> FALSE, jid |-> 1, tok |-> "COMPLETED"]>>] }
      \cup { [raised |-> FALSE, bout |-> <<l>>] : l \in { m \in Lines : m.digits } }
      \cup { [raised |-> FALSE,
              bout |-> <<[digits |-> FALSE, jid |-> 1, tok |-> "COMPLETED"], l>>] :
                l \in { m \in Lines : m.digits /\ m.jid = 1
                                        /\ m.tok \in {"RUNNING", "FAILED", "FOO"} } }

\* ------------------------------------------------------------- the state
VARIABLES
    pc,                 \* where each supervisor process is (see Init)
    jobid,              \* Poller.jobid, None is 0
    cmd,                \* Poller.cmd: "None", "NoExe" (cmd.check() fails), "Ok"
    times_criteria,     \* Poller.times_criteria
    cwd_exists,         \* whether Poller.cwd exists
    execs_ok,           \* whether Execs.check finds every executable
    allow,              \* Poller.__allow
    ok,                 \* Poller.__ok
    state,              \* Poller.__current_state
    last_state,         \* local of __loop
    last_state_times,   \* local of __loop
    result,             \* what start_loop returned: "none", "True", "False"
    lockfile,           \* whether the lock file exists
    norestart,          \* whether cwd/NORESTART exists
    polls,              \* number of perform_check calls made (when cap is 0:
                        \* modulo 2)
    informs,            \* number of inform_user calls made
    launched,           \* number of times subprocess.Popen ran the command
    hist,               \* what each perform_check call gave (a state or RAISE;
                        \* not recorded when cap is 0)
    cap,                \* most polls a supervisor makes in this model; 0 for
                        \* a loop that is let run without end
    probe_in,           \* what wexec does in a perform_check call made on
                        \* its own (see Probe)
    probe_out,          \* what that call gave: "none" (not made yet), a
                        \* state or RAISE
    delivered,          \* number of inform_user calls that wrote the message
                        \* to the user's terminals
    tty_ok,             \* whether 'who' and the user's terminals work, so
                        \* that a notification can be written
    popen_ok,           \* whether the operating system can start the
                        \* follow-up command when __exit__ asks for it
    ext_unlinked,       \* whether something outside the supervisor removed
                        \* the lock file
    limit_str,          \* the argument of a parse_timelimit call
    timelimit,          \* what that call gave: nothing yet, a number of
                        \* seconds or RuntimeError
    nodelist_str,       \* the argument of a parse_nodes call
    nodelist,           \* what that call gave: nothing yet, a dictionary
                        \* or an exception
    run_in,             \* a call of Sbatch.run: what sbatch printed, whether
                        \* polling is asked for (run_poll), whether the
                        \* poller's configuration passes its check
    run_pc,             \* where that call is: "absent", "submitted",
                        \* "parsed", "returned", "raised"
    run_jobid,          \* the local jobid of Sbatch.run, None before it is
                        \* assigned
    detached,           \* the job id of the poller that detach_start has
                        \* started, None when none was started
    platform,           \* a Platform object: the user's include and exclude
                        \* lists, what sinfo reported and what update made
                        \* of them
    nodedict,           \* a NodeDict object and what str() of it gave
    shell,              \* the Shell object: __local, __connected,
                        \* __context_present, and whether __host and
                        \* __username have been set
    shell_calls         \* the calls made on the shell: how many, how many
                        \* 'with' blocks are open, what the last call was

conf == <<jobid, cmd, times_criteria, cwd_exists, execs_ok, cap>>
loopv == <<state, last_state, last_state_times, polls, informs, hist,
           delivered>>
probev == <<probe_in, probe_out>>
envv == <<tty_ok, popen_ok, ext_unlinked>>
infov == <<limit_str, timelimit, nodelist_str, nodelist>>
runv == <<run_in, run_pc, run_jobid, detached>>
objv == <<platform, nodedict, shell, shell_calls>>
auxv == <<runv, objv>>
extv == <<probev, envv, infov, auxv>>
vars == <<pc, jobid, cmd, times_criteria, cwd_exists, execs_ok, allow, ok,
          state, last_state, last_state_times, result, lockfile, norestart,
          polls, informs, launched, hist, cap, probe_in, probe_out,
          delivered, tty_ok, popen_ok, ext_unlinked, limit_str, timelimit,
          nodelist_str, nodelist, run_in, run_pc, run_jobid, detached,
          platform, nodedict, shell, shell_calls>>

None == 0

\* ------------------------------------------------------------ Poller.check
\* Poller.check(strict): a missing job id is logged and does not fail it
check(p) ==
    /\ cwd_exists
    /\ execs_ok
    /\ cmd[p] # "None"
    /\ cmd[p] # "NoExe"

\* ------------------------------------------------------- Poller.__enter__
\* (variant: __enter__ does not look for the lock file)
lock_exists_not_tested(lf) == FALSE

\* the test of __enter__ that decides whether it raises "Lockfile exists"
lock_exists(lf) == lf

\* first half of __enter__: check(True) and the existence test of the lock
\* file; it raises RuntimeError when either fails
Enter(p) ==
    /\ pc[p] = "init"
    /\ pc' = [pc EXCEPT ![p] =
                IF ~check(p) \/ lock_exists(lockfile) THEN "raised" ELSE "touch"]
    /\ UNCHANGED <<extv, conf, loopv, allow, ok, result, lockfile, norestart, launched>>

\* second half of __enter__: self.__lockfile.touch(), self.__allow = True
Touch(p) ==
    /\ pc[p] = "touch"
    /\ lockfile' = TRUE
    /\ allow' = [allow EXCEPT ![p] = TRUE]
    /\ pc' = [pc EXCEPT ![p] = "entered"]
    /\ UNCHANGED <<extv, conf, loopv, ok, result, norestart, launched>>

\* ------------------------------------------------------ Poller.start_loop
\* start_loop called in the with block of main, up to the first sleep of
\* __loop (which sets its two locals)
start_loop(p) ==
    /\ pc[p] = "entered"
    /\ IF allow[p]
         THEN /\ pc' = [pc EXCEPT ![p] = "loop"]
              /\ last_state' = [last_state EXCEPT ![p] = state[p]]
              /\ last_state_times' = [last_state_times EXCEPT ![p] = 0]
              /\ UNCHANGED result
         ELSE /\ pc' = [pc EXCEPT ![p] = "returned"]
              /\ result' = [result EXCEPT ![p] = "False"]
              /\ UNCHANGED <<last_state, last_state_times>>
    /\ UNCHANGED <<extv, conf, allow, ok, state, lockfile, norestart, polls,
                   informs, launched, hist, delivered>>

\* ---------------------------------------------------------- Poller.__loop
\* (variant: the comparison written with >=)
too_long_ge(times, T) == times >= T

\* the comparison that declares the job stuck
too_long(times, T) == times > T

\* (variant: a newly seen state starts with a count of 1)
tracker_from_one(s, ls, lt) ==
    IF s \in states_to_end \/ s \in failure_states \/ s = "PENDING"
      THEN <<ls, lt>>
    ELSE IF s = "RUNNING" THEN <<s, 0>>
    ELSE IF s = ls THEN <<ls, lt + 1>>
    ELSE <<s, 1>>

\* (variant: the RUNNING branch logs only, as the PENDING branch does)
tracker_no_reset(s, ls, lt) ==
    IF s \in states_to_end \/ s \in failure_states \/ s = "PENDING"
         \/ s = "RUNNING"
      THEN <<ls, lt>>
    ELSE IF s = ls THEN <<ls, lt + 1>>
    ELSE <<s, 0>>

\* (variant: the branch for a state seen again does not count it)
tracker_no_count(s, ls, lt) ==
    IF s \in states_to_end \/ s \in failure_states \/ s = "PENDING"
      THEN <<ls, lt>>
    ELSE IF s = "RUNNING" THEN <<s, 0>>
    ELSE IF s = ls THEN <<ls, lt>>
    ELSE <<s, 0>>

\* (variant: the PENDING branch resets the tracker as the RUNNING branch
\* does)
tracker_pending_resets(s, ls, lt) ==
    IF s \in states_to_end \/ s \in failure_states THEN <<ls, lt>>
    ELSE IF s = "RUNNING" \/ s = "PENDING" THEN <<s, 0>>
    ELSE IF s = ls THEN <<ls, lt + 1>>
    ELSE <<s, 0>>

\* (variant: a state seen again is counted twice)
tracker_counts_double(s, ls, lt) ==
    IF s \in states_to_end \/ s \in failure_states \/ s = "PENDING"
      THEN <<ls, lt>>
    ELSE IF s = "RUNNING" THEN <<s, 0>>
    ELSE IF s = ls THEN <<ls, lt + 2>>
    ELSE <<s, 0>>

\* (variant: a state that differs from the last one takes over its count)
tracker_change_keeps_count(s, ls, lt) ==
    IF s \in states_to_end \/ s \in failure_states \/ s = "PENDING"
      THEN <<ls, lt>>
    ELSE IF s = "RUNNING" THEN <<s, 0>>
    ELSE IF s = ls THEN <<ls, lt + 1>>
    ELSE <<s, lt>>

\* the dwell tracker <<last_state, last_state_times>> after the branch taken
\* for the observed state s
tracker(s, ls, lt) ==
    IF s \in states_to_end \/ s \in failure_states \/ s = "PENDING"
      THEN <<ls, lt>>
    ELSE IF s = "RUNNING" THEN <<s, 0>>
    ELSE IF s = ls THEN <<ls, lt + 1>>
    ELSE <<s, 0>>

\* (variant: the end-state branch returns False)
loop_return_end_false(o, ls, lt, T) ==
    IF o = RAISE THEN "False"
    ELSE IF o \in states_to_end THEN "False"
    ELSE IF o \in failure_states THEN "False"
    ELSE IF o = "PENDING" \/ o = "RUNNING" THEN "none"
    ELSE IF o = ls /\ too_long(lt + 1, T) THEN "False"
    ELSE "none"

\* (variant: the failure branch has no return)
loop_return_fail_continues(o, ls, lt, T) ==
    IF o = RAISE THEN "False"
    ELSE IF o \in states_to_end THEN "True"
    ELSE IF o \in failure_states THEN "none"
    ELSE IF o = "PENDING" \/ o = "RUNNING" THEN "none"
    ELSE IF o = ls /\ too_long(lt + 1, T) THEN "False"
    ELSE "none"

\* (variant: the handler of a probe exception does not re-raise)
loop_return_retry(o, ls, lt, T) ==
    IF o = RAISE THEN "none"
    ELSE IF o \in states_to_end THEN "True"
    ELSE IF o \in failure_states THEN "False"
    ELSE IF o = "PENDING" \/ o = "RUNNING" THEN "none"
    ELSE IF o = ls /\ too_long(lt + 1, T) THEN "False"
    ELSE "none"

\* (variant: __loop has no outer handler, the re-raised exception leaves
\* start_loop)
loop_return_propagates(o, ls, lt, T) ==
    IF o = RAISE THEN "Raised"
    ELSE IF o \in states_to_end THEN "True"
    ELSE IF o \in failure_states THEN "False"
    ELSE IF o = "PENDING" \/ o = "RUNNING" THEN "none"
    ELSE IF o = ls /\ too_long(lt + 1, T) THEN "False"
    ELSE "none"

\* what one pass of the loop body does after perform_check gave o: return
\* True ("True"), return False ("False") or sleep again ("none")
loop_return(o, ls, lt, T) ==
    IF o = RAISE THEN "False"
    ELSE IF o \in states_to_end THEN "True"
    ELSE IF o \in failure_states THEN "False"
    ELSE IF o = "PENDING" \/ o = "RUNNING" THEN "none"
    ELSE IF o = ls /\ too_long(lt + 1, T) THEN "False"
    ELSE "none"

\* (variant: self.ok() is called in the end-state branch only)
calls_ok_end_only(o, ls, lt, T) == o \in states_to_end

\* whether that pass calls self.ok(): every return of the loop body does,
\* the handler of an exception does not
calls_ok(o, ls, lt, T) == o # RAISE /\ loop_return(o, ls, lt, T) # "none"

\* (variant: inform_user has no try/except around its body)
inform_user_unguarded(t) == IF t THEN "sent" ELSE "raised"

\* Poller.inform_user when writing to the terminals works (t) or not: the
\* message is written, or the exception is swallowed by 'except: pass'
inform_user(t) == IF t THEN "sent" ELSE "swallowed"

\* (variant: a probe that raises leaves UNKNOWN_STATE behind)
state_after_check_unknown(o, s) == IF o = RAISE THEN "UNKNOWN_STATE" ELSE o

\* self.state after perform_check with outcome o when it was s before: the
\* assignments to self.state come after the query and the parsing of the
\* state name, so an exception leaves the attribute as it was
state_after_check(o, s) == IF o = RAISE THEN s ELSE o

\* one pass of the while loop: sleep, perform_check, classification.  An
\* exception of perform_check is reported with inform_user, re-raised and
\* turned into "return False" by the outer handler.  Every return of the
\* loop body calls inform_user once: after self.ok() in the branches of the
\* end and failure states, before it in the branch of a state seen too long;
\* an exception of inform_user would reach the outer handler too.
Poll(p) ==
    /\ pc[p] = "loop"
    /\ cap = 0 \/ polls[p] < cap
    /\ \E r \in ProbeResults :
         LET o   == perform_check(r)
             ret == loop_return(o, last_state[p], last_state_times[p],
                                times_criteria[p])
             tr  == IF o = RAISE THEN <<last_state[p], last_state_times[p]>>
                    ELSE tracker(o, last_state[p], last_state_times[p])
             note == IF ret = "none" THEN "no call" ELSE inform_user(tty_ok)
             classified == o \in states_to_end \/ o \in failure_states
         IN  /\ polls' = [polls EXCEPT ![p] = IF cap = 0 THEN (@ + 1) % 2 ELSE @ + 1]
             /\ hist' = [hist EXCEPT ![p] = IF cap = 0 THEN @ ELSE Append(@, o)]
             /\ state' = [state EXCEPT ![p] = state_after_check(o, @)]
             /\ last_state' = [last_state EXCEPT ![p] = tr[1]]
             /\ last_state_times' = [last_state_times EXCEPT ![p] = tr[2]]
             /\ ok' = [ok EXCEPT ![p] =
                         @ \/ ( /\ calls_ok(o, last_state[p],
                                             last_state_times[p],
                                             times_criteria[p])
                                /\ classified \/ note # "raised" )]
             /\ informs' = [informs EXCEPT ![p] =
                              IF ret = "none" THEN @ ELSE @ + 1]
             /\ delivered' = [delivered EXCEPT ![p] =
                                IF note = "sent" THEN @ + 1 ELSE @]
             /\ result' = [result EXCEPT ![p] =
                             IF note = "raised" THEN "False" ELSE ret]
             /\ pc' = [pc EXCEPT ![p] = IF ret = "none" THEN "loop" ELSE "returned"]
    /\ UNCHANGED <<extv, conf, allow, lockfile, norestart, launched>>

\* -------------------------------------------------------- Poller.__exit__
\* (variant: the test of self.__ok is inverted)
exit_unlinks_not_ok(okflag) == ~okflag

\* (variant: __exit__ does not test self.__ok)
exit_unlinks_always(okflag) == TRUE

\* whether __exit__ goes on to delete the lock file
exit_unlinks(okflag) == okflag

\* (variant: unlink is called without missing_ok=True)
unlink_strict(lf) == IF lf THEN "removed" ELSE "raised"

\* self.__lockfile.unlink(missing_ok=True) when the file exists (lf) or not
unlink(lf) == IF lf THEN "removed" ELSE "missing_ok"

\* (variant: the unlink leaves the file where it is)
lock_after_unlink_kept(lf) == lf

\* whether the lock file exists once unlink(missing_ok=True) has returned
lock_after_unlink(lf) == FALSE

\* (variant: __exit__ does not test for a failure state)
exit_checks_cmd_no_failure_test(s) == s # "COMPLETED"

\* (variant: __exit__ tests the list of end states where it should test the
\* list of failure states)
exit_checks_cmd_wrong_list(s) == s \notin states_to_end /\ s # "COMPLETED"

\* (variant: __exit__ does not test for COMPLETED)
exit_checks_cmd_no_completed_test(s) == s \notin failure_states

\* whether __exit__, having deleted the lock, goes on to look for NORESTART
exit_checks_cmd(s) == s \notin failure_states /\ s # "COMPLETED"

\* (variant: __exit__ does not look for NORESTART)
exit_launches_no_sentinel(nr, c) == c # "None"

\* whether __exit__, having looked for NORESTART, launches the command
exit_launches(nr, c) == ~nr /\ c # "None"

\* first half of __exit__: clear __allow; return when the loop was not ok;
\* else delete the lock file and return when the job failed or completed.
\* An exception of unlink would leave __exit__ ("exit_raised").
Exit(p) ==
    /\ pc[p] = "returned"
    /\ allow' = [allow EXCEPT ![p] = FALSE]
    /\ IF ~exit_unlinks(ok[p])
         THEN /\ pc' = [pc EXCEPT ![p] = "done"]
              /\ UNCHANGED lockfile
         ELSE IF unlink(lockfile) = "raised"
         THEN /\ pc' = [pc EXCEPT ![p] = "exit_raised"]
              /\ UNCHANGED lockfile
         ELSE /\ lockfile' = lock_after_unlink(lockfile)
              /\ pc' = [pc EXCEPT ![p] =
                          IF exit_checks_cmd(state[p]) THEN "checkcmd" ELSE "done"]
    /\ UNCHANGED <<extv, conf, loopv, ok, result, norestart, launched>>

\* subprocess.Popen(cmds, start_new_session=True) when the operating system
\* can start the program (po) or not: Popen raises OSError
Popen(po) == IF po THEN "started" ELSE "raised"

\* second half of __exit__: the NORESTART test and subprocess.Popen, which
\* is not inside any try block: its exception leaves __exit__
Relaunch(p) ==
    /\ pc[p] = "checkcmd"
    /\ IF exit_launches(norestart, cmd[p]) /\ Popen(popen_ok) = "raised"
         THEN /\ pc' = [pc EXCEPT ![p] = "exit_raised"]
              /\ UNCHANGED launched
         ELSE /\ launched' = [launched EXCEPT ![p] =
                      IF exit_launches(norestart, cmd[p]) THEN @ + 1 ELSE @]
              /\ pc' = [pc EXCEPT ![p] = "done"]
    /\ UNCHANGED <<extv, conf, loopv, allow, ok, result, lockfile, norestart>>

\* ------------------------------------------------------- the outside world
\* external tooling creates or removes cwd/NORESTART at any time
ToggleNoRestart ==
    /\ norestart' = ~norestart
    /\ UNCHANGED <<extv, pc, conf, loopv, allow, ok, result, lockfile, launched>>

\* something outside the supervisor removes the lock file
ExternalUnlink ==
    /\ lockfile
    /\ lockfile' = FALSE
    /\ ext_unlinked' = TRUE
    /\ UNCHANGED <<probev, infov, auxv, tty_ok, popen_ok, pc, conf, loopv,
                   allow, ok, result, norestart, launched>>

\* ---------------------------------------------------------- specifications
\* surroundings that behave: terminals can be written, the command can be
\* started, nobody else touches the lock file
EnvQuiet ==
    /\ tty_ok = TRUE
    /\ popen_ok = TRUE
    /\ ext_unlinked = FALSE

\* no call of parse_timelimit or parse_nodes is being looked at
InfoIdle ==
    /\ limit_str = [kind |-> "text", day |-> [present |-> FALSE, digits |-> <<>>],
                    hh |-> <<>>, mm |-> <<>>,
                    ss |-> [present |-> FALSE, digits |-> <<>>], nl |-> FALSE]
    /\ timelimit = [kind |-> "none", val |-> 0]
    /\ nodelist_str = [groups |-> <<>>, unclosed |-> FALSE,
                       trailing_comma |-> FALSE, missing_comma |-> FALSE]
    /\ nodelist = [kind |-> "none", keys |-> {}, members |-> {}]

\* no call of Sbatch.run is being looked at
RunIdle ==
    /\ run_in = [prefix |-> FALSE, n |-> <<>>, rest |-> <<>>,
                 run_poll |-> FALSE, poller_ok |-> FALSE]
    /\ run_pc = "absent"
    /\ run_jobid = None
    /\ detached = None

\* no Platform object is being looked at
PlatformIdle ==
    platform = [pc |-> "absent", execs_ok |-> FALSE,
                usr_nodes_include |-> <<>>, usr_nodes_exclude |-> <<>>,
                nodelist |-> <<>>, nodes_include |-> <<>>,
                nodes_exclude |-> <<>>]

\* no NodeDict object is being looked at
NodeDictIdle ==
    nodedict = [calls |-> 0, orig |-> <<>>, d |-> <<>>,
                first |-> [kind |-> "none", text |-> <<>>],
                out |-> [kind |-> "none", text |-> <<>>]]

\* the module's shell as 'shell = Shell()' leaves it, no call made on it
ShellIdle ==
    /\ shell = [local |-> TRUE, has_host |-> FALSE, connected |-> FALSE,
                context_present |-> FALSE]
    /\ shell_calls = [n |-> 0, depth |-> 0, last |-> "none"]

ObjIdle == PlatformIdle /\ NodeDictIdle /\ ShellIdle

AuxIdle == RunIdle /\ ObjIdle

\* the fields and counters of supervisors just constructed
FreshInit ==
    /\ InfoIdle
    /\ AuxIdle
    /\ delivered = [p \in Procs |-> 0]
    /\ allow = [p \in Procs |-> FALSE]
    /\ ok = [p \in Procs |-> FALSE]
    /\ state = [p \in Procs |-> "PENDING"]
    /\ last_state = [p \in Procs |-> "PENDING"]
    /\ last_state_times = [p \in Procs |-> 0]
    /\ result = [p \in Procs |-> "none"]
    /\ polls = [p \in Procs |-> 0]
    /\ informs = [p \in Procs |-> 0]
    /\ launched = [p \in Procs |-> 0]
    /\ hist = [p \in Procs |-> <<>>]
    /\ probe_in = [raised |-> FALSE, bout |-> <<>>]
    /\ probe_out = "none"

TypeInit == EnvQuiet /\ FreshInit

\* one supervisor (process 1) just constructed, with any configuration; a
\* lock file of an earlier run may be there
Init ==
    /\ TypeInit
    /\ pc = [p \in Procs |-> IF p = 1 THEN "init" ELSE "absent"]
    /\ jobid \in [Procs -> {None, 1}]
    /\ jobid[2] = None
    /\ cmd \in [Procs -> {"None", "NoExe", "Ok"}]
    /\ cmd[2] = "None"
    /\ times_criteria \in [Procs -> 0 .. MaxT]
    /\ times_criteria[2] = 0
    /\ cwd_exists \in BOOLEAN
    /\ execs_ok \in BOOLEAN
    /\ lockfile \in BOOLEAN
    /\ norestart \in BOOLEAN
    /\ cap = MaxPolls

Next ==
    \/ \E p \in Procs : Enter(p)
    \/ \E p \in Procs : Touch(p)
    \/ \E p \in Procs : start_loop(p)
    \/ \E p \in Procs : Poll(p)
    \/ \E p \in Procs : Exit(p)
    \/ \E p \in Procs : Relaunch(p)
    \/ ToggleNoRestart

Spec == Init /\ [][Next]_vars

\* two supervisors constructed for the same working directory and lock file,
\* each with a valid configuration
InitRace ==
    /\ TypeInit
    /\ pc = [p \in Procs |-> "init"]
    /\ jobid = [p \in Procs |-> 1]
    /\ cmd = [p \in Procs |-> "Ok"]
    /\ times_criteria = [p \in Procs |-> 0]
    /\ cwd_exists = TRUE
    /\ execs_ok = TRUE
    /\ lockfile = FALSE
    /\ norestart \in BOOLEAN
    /\ cap = RacePolls

SpecRace == InitRace /\ [][Next]_vars

\* one supervisor with a valid configuration and a threshold of DwellT,
\* polling longer, in a working directory without a NORESTART file
InitDwell ==
    /\ TypeInit
    /\ pc = [p \in Procs |-> IF p = 1 THEN "init" ELSE "absent"]
    /\ jobid = [p \in Procs |-> IF p = 1 THEN 1 ELSE None]
    /\ cmd = [p \in Procs |-> IF p = 1 THEN "Ok" ELSE "None"]
    /\ times_criteria = [p \in Procs |-> IF p = 1 THEN DwellT ELSE 0]
    /\ cwd_exists = TRUE
    /\ execs_ok = TRUE
    /\ lockfile = FALSE
    /\ norestart = FALSE
    /\ cap = DwellPolls

\* the supervisor's own steps, the NORESTART file left alone
NextDwell ==
    \/ \E p \in Procs : Enter(p)
    \/ \E p \in Procs : Touch(p)
    \/ \E p \in Procs : start_loop(p)
    \/ \E p \in Procs : Poll(p)
    \/ \E p \in Procs : Exit(p)
    \/ \E p \in Procs : Relaunch(p)

SpecDwell == InitDwell /\ [][NextDwell]_vars

\* one supervisor with a valid configuration whose loop is let run without
\* end.  The loop is a single thread that sleeps and polls again, so the
\* supervisor always takes its next step (weak fairness of its own steps);
\* nothing is assumed of the tooling that touches NORESTART.
InitLive ==
    /\ TypeInit
    /\ pc = [p \in Procs |-> IF p = 1 THEN "init" ELSE "absent"]
    /\ jobid = [p \in Procs |-> IF p = 1 THEN 1 ELSE None]
    /\ cmd = [p \in Procs |-> IF p = 1 THEN "Ok" ELSE "None"]
    /\ times_criteria \in [Procs -> 0 .. MaxT]
    /\ times_criteria[2] = 0
    /\ cwd_exists = TRUE
    /\ execs_ok = TRUE
    /\ lockfile = FALSE
    /\ norestart \in BOOLEAN
    /\ cap = 0

SpecLive == InitLive /\ [][Next]_vars /\ WF_vars(NextDwell)

\* one supervisor with a valid configuration in surroundings that may
\* misbehave: the terminals may be unwritable, the follow-up command may not
\* start, and the lock file may be removed from outside at any time
InitEnv ==
    /\ FreshInit
    /\ pc = [p \in Procs |-> IF p = 1 THEN "init" ELSE "absent"]
    /\ jobid = [p \in Procs |-> IF p = 1 THEN 1 ELSE None]
    /\ cmd = [p \in Procs |-> IF p = 1 THEN "Ok" ELSE "None"]
    /\ times_criteria \in [Procs -> 0 .. 1]
    /\ times_criteria[2] = 0
    /\ cwd_exists = TRUE
    /\ execs_ok = TRUE
    /\ lockfile = FALSE
    /\ norestart \in BOOLEAN
    /\ cap = EnvPolls
    /\ tty_ok \in BOOLEAN
    /\ popen_ok \in BOOLEAN
    /\ ext_unlinked = FALSE

NextEnv ==
    \/ NextDwell
    \/ ExternalUnlink

SpecEnv == InitEnv /\ [][NextEnv]_vars

\* two supervisors constructed for the same working directory and lock file,
\* each with a valid configuration, started at any time one after or beside
\* the other, while the lock file may be removed from outside
InitStale ==
    /\ TypeInit
    /\ pc = [p \in Procs |-> "init"]
    /\ jobid = [p \in Procs |-> 1]
    /\ cmd = [p \in Procs |-> "Ok"]
    /\ times_criteria = [p \in Procs |-> 0]
    /\ cwd_exists = TRUE
    /\ execs_ok = TRUE
    /\ lockfile = FALSE
    /\ norestart \in BOOLEAN
    /\ cap = StalePolls

SpecStale == InitStale /\ [][NextEnv]_vars

\* the status outputs given to the probe on its own: the query fails, or
\* prints up to MaxLines lines
ProbeInputs ==
    { [raised |-> TRUE, bout |-> <<>>] }
      \cup { [raised |-> FALSE, bout |-> b] :
                b \in UNION { [1 .. n -> Lines] : n \in 0 .. MaxLines } }

\* a supervisor of job 1 or 2, not started, about to call perform_check once
\* on some status output
InitProbe ==
    /\ pc = [p \in Procs |-> "absent"]
    /\ jobid \in [Procs -> JobIds]
    /\ jobid[2] = jobid[1]
    /\ cmd = [p \in Procs |-> "Ok"]
    /\ times_criteria = [p \in Procs |-> 0]
    /\ cwd_exists = TRUE
    /\ execs_ok = TRUE
    /\ allow = [p \in Procs |-> FALSE]
    /\ ok = [p \in Procs |-> FALSE]
    /\ state = [p \in Procs |-> "PENDING"]
    /\ last_state = [p \in Procs |-> "PENDING"]
    /\ last_state_times = [p \in Procs |-> 0]
    /\ result = [p \in Procs |-> "none"]
    /\ lockfile = FALSE
    /\ norestart = FALSE
    /\ polls = [p \in Procs |-> 0]
    /\ informs = [p \in Procs |-> 0]
    /\ launched = [p \in Procs |-> 0]
    /\ hist = [p \in Procs |-> <<>>]
    /\ cap = 0
    /\ EnvQuiet
    /\ InfoIdle
    /\ AuxIdle
    /\ delivered = [p \in Procs |-> 0]
    /\ probe_in \in ProbeInputs
    /\ probe_out = "none"

\* one call of Poller.perform_check
Probe ==
    /\ probe_out = "none"
    /\ probe_out' = perform_check(probe_in)
    /\ UNCHANGED <<pc, conf, loopv, allow, ok, result, lockfile, norestart,
                   launched, probe_in, envv, infov, auxv>>

SpecProbe == InitProbe /\ [][Probe]_vars

\* ------------------------------------------------- vocabulary of the claims
InProgress == SStates \ (states_to_end \cup failure_states)
Dwellers == InProgress \ {"PENDING", "RUNNING"}

\* the loop of p has returned / p is past the deletion step of __exit__
Returned(p) == pc[p] \in {"returned", "checkcmd", "done"}
Left(p) == pc[p] \in {"checkcmd", "done"}

\* every poll so far gave X
AllSame(h, X) == \A i \in 1 .. Len(h) : h[i] = X
\* the first poll gave RUNNING and every later one X
RunThenSame(h, X) ==
    /\ Len(h) >= 1
    /\ h[1] = "RUNNING"
    /\ \A i \in 2 .. Len(h) : h[i] = X
\* the polls so far are a prefix of (RUNNING, X, X, X) repeated
RunXXX(h, X) ==
    \A i \in 1 .. Len(h) : h[i] = (IF i % 4 = 1 THEN "RUNNING" ELSE X)

\* ------------------------------------------------------------------ claims

\* C1: two supervisors configured with the same lock file never both hold
\* the lock (are inside their scoped block after acquiring it) at once.
\* Stated as the claim makes it; SpecRace violates it.
C1_MutualExclusion == ~(allow[1] /\ allow[2])

\* C2 as stated: when every poll gave the same in-progress state other than
\* RUNNING, the loop has not failed up to poll T and has failed at poll T+1.
C2_FailsAtTPlus1 ==
    \A X \in InProgress \ {"RUNNING"} :
        (hist[1] # <<>> /\ AllSame(hist[1], X)) =>
            /\ polls[1] <= times_criteria[1] => result[1] # "False"
            /\ polls[1] = times_criteria[1] + 1 => result[1] = "False"

\* C2 (amended): when every poll gave the same in-progress state X other
\* than PENDING and RUNNING and the threshold is T, the loop is still polling
\* after each of the polls 1 .. T+1, and poll T+2 makes it return False with
\* the ok flag set (a returned failure, not the exception path); no poll
\* follows.
C2_DwellFromStart ==
    \A X \in Dwellers :
        (hist[1] # <<>> /\ AllSame(hist[1], X)) =>
            /\ polls[1] = Len(hist[1])
            /\ polls[1] <= times_criteria[1] + 2
            /\ polls[1] <= times_criteria[1] + 1 =>
                  pc[1] = "loop" /\ result[1] = "none"
            /\ polls[1] = times_criteria[1] + 2 =>
                  /\ Returned(1)
                  /\ result[1] = "False"
                  /\ ok[1]
                  /\ state[1] = X

C2_Witness ==
    /\ times_criteria[1] = 2
    /\ hist[1] = <<"SUSPENDED", "SUSPENDED", "SUSPENDED", "SUSPENDED">>
    /\ result[1] = "False"

\* C3 as stated: after a RUNNING poll, the (T+1)-th consecutive poll of one
\* dwelling state X makes the loop return False with final state X.
C3_FailsAtTPlus1AfterReset ==
    \A X \in Dwellers :
        (RunThenSame(hist[1], X) /\ Len(hist[1]) = times_criteria[1] + 2) =>
            result[1] = "False" /\ state[1] = X

\* C3 (amended): after a RUNNING poll followed by consecutive polls of one
\* dwelling state X, the loop is still polling after the first T+1 of them
\* and returns False with final state X on the (T+2)-th: for T=2 and
\* [RUNNING, SUSPENDED, SUSPENDED, SUSPENDED, SUSPENDED] on the 5th poll.
C3_DwellAfterReset ==
    \A X \in Dwellers :
        RunThenSame(hist[1], X) =>
            /\ Len(hist[1]) <= times_criteria[1] + 3
            /\ Len(hist[1]) <= times_criteria[1] + 2 =>
                  pc[1] = "loop" /\ result[1] = "none"
            /\ Len(hist[1]) = times_criteria[1] + 3 =>
                  /\ Returned(1)
                  /\ result[1] = "False"
                  /\ state[1] = X
                  /\ polls[1] = times_criteria[1] + 3

C3_Witness ==
    /\ times_criteria[1] = 2
    /\ hist[1] = <<"RUNNING", "SUSPENDED", "SUSPENDED", "SUSPENDED", "SUSPENDED">>
    /\ result[1] = "False"
    /\ state[1] = "SUSPENDED"

\* C4: a poll that gave RUNNING leaves the tracker at (RUNNING, 0), and with
\* a threshold of 2 or more a run of polls that repeats (RUNNING, X, X, X)
\* for a dwelling state X never makes the loop return.
C4_RunningResets ==
    /\ (hist[1] # <<>> /\ hist[1][Len(hist[1])] = "RUNNING") =>
          /\ last_state[1] = "RUNNING"
          /\ last_state_times[1] = 0
          /\ pc[1] = "loop"
    /\ \A X \in Dwellers :
          (times_criteria[1] >= 2 /\ hist[1] # <<>> /\ RunXXX(hist[1], X)) =>
                /\ result[1] = "none"
                /\ pc[1] = "loop"
                /\ last_state_times[1] <= 2

C4_Witness ==
    /\ hist[1] = <<"RUNNING", "SUSPENDED", "SUSPENDED", "SUSPENDED",
                   "RUNNING", "SUSPENDED", "SUSPENDED", "SUSPENDED">>
    /\ times_criteria[1] = 2
    /\ pc[1] = "loop"
    /\ last_state_times[1] = 2

\* C5: when polls of PENDING/RUNNING are followed by a first terminal-success
\* state S at poll n, the loop has returned True with final state S after
\* exactly n polls, and no poll follows.
C5_TerminalSuccess ==
    \A n \in 1 .. Len(hist[1]) :
        (/\ hist[1][n] \in states_to_end
         /\ \A i \in 1 .. (n - 1) : hist[1][i] \in {"PENDING", "RUNNING"}) =>
            /\ Len(hist[1]) = n
            /\ polls[1] = n
            /\ Returned(1)
            /\ result[1] = "True"
            /\ state[1] = hist[1][n]

C5_Witness ==
    /\ hist[1] = <<"PENDING", "PENDING", "RUNNING", "COMPLETED">>
    /\ result[1] = "True"
    /\ state[1] = "COMPLETED"
    /\ polls[1] = 4

\* C6: the poll that observes a terminal-failure state F makes the loop
\* return False with final state F at once (no poll follows), and that poll
\* leaves the dwell tracker as it found it.
C6_TerminalFailure ==
    /\ [](\A n \in 1 .. Len(hist[1]) :
            hist[1][n] \in failure_states =>
                /\ Len(hist[1]) = n
                /\ polls[1] = n
                /\ Returned(1)
                /\ result[1] = "False"
                /\ state[1] = hist[1][n])
    /\ [][(/\ Len(hist'[1]) = Len(hist[1]) + 1
           /\ hist'[1][Len(hist'[1])] \in failure_states) =>
              /\ last_state'[1] = last_state[1]
              /\ last_state_times'[1] = last_state_times[1]]_vars

C6_Witness ==
    /\ hist[1] = <<"SUSPENDED", "SUSPENDED", "FAILED">>
    /\ last_state[1] = "SUSPENDED"
    /\ last_state_times[1] = 1
    /\ result[1] = "False"
    /\ state[1] = "FAILED"

\* C7: when the k-th probe raises, the loop has returned False after exactly
\* k probes, no further probe is made, and exactly one user notification has
\* been attempted.
C7_ProbeExceptionFatal ==
    \A k \in 1 .. Len(hist[1]) :
        hist[1][k] = RAISE =>
            /\ Len(hist[1]) = k
            /\ polls[1] = k
            /\ Returned(1)
            /\ result[1] = "False"
            /\ informs[1] = 1

C7_Witness ==
    /\ Len(hist[1]) = 3
    /\ hist[1][3] = RAISE
    /\ polls[1] = 3
    /\ result[1] = "False"
    /\ informs[1] = 1

\* C8 as stated: once a supervisor that acquired the lock is past the lock
\* step of its block exit, the lock file does not exist.
C8_ReleasedOnEveryPath == Left(1) => ~lockfile

\* C8 (amended): once a supervisor that acquired the lock has left its
\* scoped block after the loop returned through one of its classified exits
\* (terminal success, terminal failure, stuck state), the lock file does not
\* exist; the exit taken when a probe raised is not covered.
C8_ReleasedOnClassifiedExit ==
    (Left(1) /\ \A i \in 1 .. Len(hist[1]) : hist[1][i] # RAISE) => ~lockfile

C8_Witness ==
    /\ pc[1] = "done"
    /\ result[1] = "False"
    /\ state[1] = "FAILED"
    /\ ~lockfile

\* C9 as stated: at block exit the lock file has been deleted exactly when
\* the loop returned True.
C9_ReleaseIffResultTrue == pc[1] = "done" => (~lockfile <=> result[1] = "True")

\* C9 (amended): at block exit the lock file has been deleted exactly when
\* the loop ended through a classified exit, which sets the ok flag: a
\* terminal-success state (returns True), a terminal-failure state or a stuck
\* state (both return False).  It is left in place only after a loop that a
\* probe exception ended.
C9_ReleaseIffOkFlag ==
    pc[1] = "done" =>
        /\ ~lockfile <=> ok[1]
        /\ ok[1] <=> hist[1][Len(hist[1])] # RAISE
        /\ result[1] = "True" => ~lockfile
        /\ hist[1][Len(hist[1])] = RAISE => result[1] = "False" /\ lockfile

C9_Witness ==
    /\ pc[1] = "done"
    /\ hist[1][Len(hist[1])] = RAISE
    /\ lockfile
    /\ ~ok[1]

\* C10 as stated: the follow-up command is launched only after a loop that
\* returned True.
C10_LaunchOnlyAfterTrue == launched[1] > 0 => result[1] = "True"

\* C10 (amended): the follow-up command is launched only after a loop that
\* ended through a classified exit with a final state that is neither a
\* terminal failure nor COMPLETED: either the loop returned True, or it
\* returned False because the job was declared stuck.  It is never launched
\* after a terminal failure or a probe exception.
C10_LaunchOnlyAfterOkFlag ==
    launched[1] > 0 =>
        /\ ok[1]
        /\ pc[1] = "done"
        /\ state[1] \notin failure_states
        /\ hist[1][Len(hist[1])] # RAISE
        /\ \/ result[1] = "True"
           \/ /\ result[1] = "False"
              /\ state[1] \in Dwellers
              /\ last_state[1] = state[1]
              /\ last_state_times[1] > times_criteria[1]

C10_Witness ==
    /\ launched[1] = 1
    /\ result[1] = "False"
    /\ state[1] = "SUSPENDED"

\* C11: once the loop has returned with a terminal-failure state as the
\* final observed state, its result is False and the follow-up command is
\* not and will not be launched (the supervisor never reaches the NORESTART
\* test), whether or not the NORESTART file exists.
C11_FailureNeverRelaunches ==
    (Returned(1) /\ state[1] \in failure_states) =>
        /\ result[1] = "False"
        /\ launched[1] = 0
        /\ pc[1] # "checkcmd"

C11_Witness ==
    /\ pc[1] = "done"
    /\ state[1] = "FAILED"
    /\ ~norestart
    /\ cmd[1] = "Ok"
    /\ launched[1] = 0
    /\ ~lockfile

\* C12: the step of __exit__ that looks for NORESTART launches nothing when
\* the file is there; the command is launched only by that step, at most
\* once, after the loop has returned; and a step that creates or removes
\* NORESTART changes neither the polls made nor the loop's result.
C12_NoRestartSentinel ==
    /\ [][(pc[1] = "checkcmd" /\ pc'[1] # "checkcmd" /\ norestart) =>
             launched'[1] = launched[1]]_vars
    /\ [][launched'[1] # launched[1] =>
             /\ pc[1] = "checkcmd"
             /\ result[1] # "none"
             /\ ~norestart
             /\ launched[1] = 0
             /\ launched'[1] = 1
             /\ norestart' = norestart]_vars
    /\ [][norestart' # norestart =>
             /\ polls' = polls
             /\ hist' = hist
             /\ result' = result
             /\ state' = state
             /\ pc' = pc]_vars

C12_Witness ==
    /\ pc[1] = "done"
    /\ result[1] = "True"
    /\ state[1] = "TIMEOUT"
    /\ cmd[1] = "Ok"
    /\ norestart
    /\ launched[1] = 0

\* C13 as stated: when RUNNING is reported only finitely often, the loop
\* eventually returns (a probe that raises makes it return at once).
C13_AlwaysReturns ==
    (<>[](state[1] # "RUNNING")) => <>(result[1] # "none")

\* C13 (amended): when no probe raises and from some point on every poll
\* reports PENDING or one fixed in-progress state X other than PENDING and
\* RUNNING, and X again and again, the loop eventually returns.  (A loop that
\* is told PENDING for ever, or two dwelling states in turn, polls for ever.)
C13_StuckEventuallyReturns ==
    \A X \in {"SUSPENDED", "UNKNOWN_STATE"} :
        ((<>[](state[1] \in {X, "PENDING"})) /\ []<>(state[1] = X))
            => <>(result[1] # "none")

C13_Witness ==
    /\ cap = 0
    /\ times_criteria[1] = 2
    /\ Returned(1)
    /\ result[1] = "False"
    /\ ok[1]
    /\ state[1] = "SUSPENDED"
    /\ last_state[1] = "SUSPENDED"
    /\ last_state_times[1] = 3

\* C14: when the lock file exists at the existence test of __enter__, the
\* supervisor raises and leaves the file in place; a supervisor that raised
\* in __enter__ has made no probe, has no loop result, does not hold the
\* lock, and stays that way.
C14_LockPresentAtAcquire ==
    /\ [][(pc[1] = "init" /\ pc'[1] # "init" /\ lockfile) =>
             /\ pc'[1] = "raised"
             /\ lockfile'
             /\ polls' = polls
             /\ allow' = allow]_vars
    /\ [](pc[1] = "raised" =>
             /\ polls[1] = 0
             /\ hist[1] = <<>>
             /\ result[1] = "none"
             /\ ~allow[1])
    /\ [][pc[1] = "raised" => pc'[1] = "raised" /\ lockfile' = lockfile]_vars

C14_Witness ==
    /\ pc[1] = "raised"
    /\ check(1)
    /\ lockfile
    /\ polls[1] = 0

\* C15: a supervisor whose job id is unset, or whose working directory does
\* not exist, never gets past __enter__: it creates no lock file, does not
\* start the loop and makes no probe.  Stated as the claim makes it; Spec
\* violates it.
C15_ConfigErrorsStop ==
    (jobid[1] = None \/ ~cwd_exists) =>
        /\ pc[1] \in {"init", "raised"}
        /\ ~allow[1]
        /\ polls[1] = 0

\* C16: whenever a supervisor is polling, the lock file it created exists.
\* Stated as the claim makes it; SpecRace violates it.
C16_LockHeldWhilePolling ==
    \A p \in Procs : pc[p] = "loop" => lockfile

\* C17: the two terminal lists are disjoint subsets of the enumeration, so
\* every state is in exactly one of terminal-success, terminal-failure and
\* in-progress; UNKNOWN_STATE is in-progress; and the loop uses them so: it
\* is polling only on in-progress states, returns True only on an end state
\* and returns False on every failure state.
C17_ClassificationPartition ==
    /\ states_to_end \subseteq SStates
    /\ failure_states \subseteq SStates
    /\ states_to_end \cap failure_states = {}
    /\ \A s \in SStates :
          Cardinality({ c \in {states_to_end, failure_states, InProgress} :
                          s \in c }) = 1
    /\ "UNKNOWN_STATE" \in InProgress
    /\ state[1] \in SStates
    /\ pc[1] = "loop" => state[1] \in InProgress
    /\ result[1] = "True" => state[1] \in states_to_end
    /\ (Returned(1) /\ state[1] \in failure_states) => result[1] = "False"

C17_Witness ==
    /\ pc[1] = "loop"
    /\ polls[1] = 2
    /\ state[1] = "UNKNOWN_STATE"
    /\ hist[1] = <<"UNKNOWN_STATE", "UNKNOWN_STATE">>

\* ---------------------------------------------------- the probe on its own

\* the tokens the wider class [A-Za-z_]+ matches: every non-empty token
WordTokens == (ProbeTokens \cup SStates) \ {""}

\* a line of the form <digits>|<token>| with a token of letters and
\* underscores
WellFormed(line) == line.digits /\ line.tok \in WordTokens

\* the probe has been made and the status query itself did not fail
Probed == probe_out # "none" /\ ~probe_in.raised

\* C18: when the output is empty, or it has well-formed lines and the token
\* of each of them is no name of the enumeration, the probe yields
\* UNKNOWN_STATE and does not raise.  Stated as the claim makes it;
\* SpecProbe violates it on a line 1|FOO|.
C18_UnrecognisedIsUnknown ==
    LET bout == probe_in.bout
        wf == { i \in DOMAIN bout : WellFormed(bout[i]) }
    IN  ( /\ Probed
          /\ bout = <<>> \/ wf # {}
          /\ \A i \in wf : bout[i].tok \notin SStates )
        => probe_out = "UNKNOWN_STATE"

\* C19: for every status output none of whose lines matches
\* ^\d+\|[A-Za-z_]+\| the probe yields UNKNOWN_STATE and does not raise.
C19_NonMatchingIsUnknown ==
    ( /\ Probed
      /\ \A i \in DOMAIN probe_in.bout : ~WellFormed(probe_in.bout[i]) )
    => probe_out = "UNKNOWN_STATE"

C19_Witness ==
    /\ probe_out = "UNKNOWN_STATE"
    /\ probe_in.bout = << [digits |-> FALSE, jid |-> 1, tok |-> "COMPLETED"],
                          [digits |-> TRUE, jid |-> 1, tok |-> ""] >>

\* C20, as the claim makes it: when every line of the output is a line
\* <digits>|<state>| of some job, the state returned is the one on the first
\* line of the supervisor's own job, and UNKNOWN_STATE when no line is of
\* that job.  SpecProbe violates it: the job id of a line is never compared.
C20_SelectsOwnJob ==
    LET bout == probe_in.bout
        own == { i \in DOMAIN bout : bout[i].jid = jobid[1] }
    IN  ( /\ Probed
          /\ \A i \in DOMAIN bout :
                LineMatches(bout[i]) /\ bout[i].tok \in SStates )
        => IF own = {} THEN probe_out = "UNKNOWN_STATE"
           ELSE \E i \in own : /\ \A j \in own : i <= j
                                /\ probe_out = bout[i].tok

\* C20, amended: the state returned is the one on the first line of the form
\* <digits>|<letters>|, whatever job id it carries (the probe raises when
\* that token names no state); when no line has that form the result is
\* UNKNOWN_STATE.
C20_SelectsFirstWellFormed ==
    LET bout == probe_in.bout
        m == { i \in DOMAIN bout : LineMatches(bout[i]) }
    IN  Probed
        => IF m = {} THEN probe_out = "UNKNOWN_STATE"
           ELSE \E i \in m :
                  /\ \A j \in m : i <= j
                  /\ probe_out = IF bout[i].tok \in SStates
                                  THEN bout[i].tok ELSE RAISE

C20_Witness ==
    /\ jobid[1] = 1
    /\ probe_out = "RUNNING"
    /\ probe_in.bout = << [digits |-> TRUE, jid |-> 2, tok |-> "RUNNING"],
                          [digits |-> TRUE, jid |-> 1, tok |-> "COMPLETED"] >>

\* --------------------------------------------- exceptions and environment

\* C21: start_loop ends with a return value, never with an exception: its
\* result is True or False, and when the last probe raised it is False, the
\* ok flag is unset and the supervisor goes on to its block exit.
C21_NoExceptionEscapes ==
    /\ result[1] \in {"none", "True", "False"}
    /\ (hist[1] # <<>> /\ hist[1][Len(hist[1])] = RAISE)
         => /\ result[1] = "False"
            /\ ~ok[1]
            /\ pc[1] \in {"returned", "done"}

C21_Witness ==
    /\ hist[1] = <<"RUNNING", RAISE>>
    /\ pc[1] = "done"
    /\ result[1] = "False"
    /\ lockfile

\* the dwell tracker after the first k probes of the history h, computed
\* from the probe outcomes alone
RECURSIVE TrackerAfter(_, _)
TrackerAfter(h, k) ==
    IF k = 0 THEN <<"PENDING", 0>>
    ELSE LET t == TrackerAfter(h, k - 1)
         IN  IF h[k] = RAISE THEN t ELSE tracker(h[k], t[1], t[2])

\* the last state a probe of the history h reported
RECURSIVE StateAfter(_, _)
StateAfter(h, k) ==
    IF k = 0 THEN "PENDING"
    ELSE IF h[k] = RAISE THEN StateAfter(h, k - 1) ELSE h[k]

\* C22: the outcome is a function of the probe history and the
\* configuration in which the working of the notifications does not occur:
\* the number of polls, the loop result, the final state, the ok flag that
\* decides the lock release, the release itself and the relaunch are the
\* same whether the terminals can be written or not, and start_loop ends
\* with a return value.
C22_NotifyCannotChangeOutcome ==
    LET h == hist[1]
        n == Len(h)
        t == TrackerAfter(h, n - 1)
        T == times_criteria[1]
        res == IF n = 0 THEN "none" ELSE loop_return(h[n], t[1], t[2], T)
        okf == n > 0 /\ calls_ok(h[n], t[1], t[2], T)
    IN  /\ polls[1] = n
        /\ result[1] = res
        /\ state[1] = StateAfter(h, n)
        /\ ok[1] = okf
        /\ pc[1] = "loop" => res = "none"
        /\ pc[1] \in {"returned", "checkcmd", "done", "exit_raised"}
              => res # "none"
        /\ pc[1] \in {"checkcmd", "exit_raised"} => (okf /\ ~lockfile)
        /\ pc[1] = "done" => IF okf THEN ~lockfile
                                    ELSE lockfile \/ ext_unlinked
        /\ pc[1] = "done" =>
              launched[1] = IF okf /\ exit_checks_cmd(StateAfter(h, n))
                                    /\ exit_launches(norestart, cmd[1])
                              THEN 1 ELSE 0

C22_Witness ==
    /\ ~tty_ok
    /\ informs[1] = 1
    /\ delivered[1] = 0
    /\ hist[1] = <<"RUNNING", "TIMEOUT">>
    /\ result[1] = "True"
    /\ pc[1] = "done"
    /\ launched[1] = 1

\* C23: when the block exit of a supervisor whose loop was ok finds the
\* lock file already gone, the release raises nothing (the exit goes on to
\* its next step) and the file stays absent.
C23_ReleaseIdempotent ==
    [][\A p \in Procs :
          (pc[p] = "returned" /\ ok[p] /\ ~lockfile)
            => (pc'[p] \in {"checkcmd", "done"} /\ ~lockfile')]_vars

C23_Witness ==
    /\ ext_unlinked
    /\ ok[1]
    /\ state[1] = "COMPLETED"
    /\ pc[1] = "done"
    /\ ~lockfile

\* C24: a follow-up command that cannot be started raises nothing out of
\* the supervisor: the block exit ends normally, with the loop result and
\* the lock release as they were decided.  Stated as the claim makes it;
\* SpecEnv violates it, the OSError of Popen leaves __exit__.
C24_RelaunchFailureNotFatal ==
    \A p \in Procs : pc[p] # "exit_raised"

\* ================================================= info.py: parse_timelimit
\* A time limit string is modelled by its parts: kind "UNLIMITED" (that
\* word), "text" (anything without the two colons of a time), or "time":
\* an optional day part (digits, possibly none, and '-'), the digits before
\* the first colon (hh), those after it (mm), an optional second colon with
\* its digits (ss); nl says that one newline follows the text.

\* the day parts tried: none, a '-' with no number, 0, 1, 2, 10
DayParts ==
    { [present |-> FALSE, digits |-> <<>>] }
      \cup { [present |-> TRUE, digits |-> d] :
                d \in { <<>>, <<0>>, <<1>>, <<2>>, <<1, 0>> } }

HourFields ==
    { <<>>, <<0>>, <<9>>, <<0, 0>>, <<1, 0>>, <<2, 3>>, <<2, 4>>, <<2, 5>>,
      <<9, 9>>, <<1, 0, 0>> }

MinuteFields ==
    { <<0>>, <<0, 0>>, <<3, 0>>, <<5, 9>>, <<6, 0>>, <<9, 9>>, <<0, 0, 0>> }

SecondParts ==
    { [present |-> FALSE, digits |-> <<>>] }
      \cup { [present |-> TRUE, digits |-> d] :
                d \in { <<0>>, <<0, 0>>, <<1, 5>>, <<5, 9>>, <<6, 0>>,
                        <<0, 0, 0>> } }

LimitStrs ==
    [ kind : {"time"}, day : DayParts, hh : HourFields, mm : MinuteFields,
      ss : SecondParts, nl : BOOLEAN ]
      \cup [ kind : {"UNLIMITED", "text"},
             day : { [present |-> FALSE, digits |-> <<>>] }, hh : { <<>> },
             mm : { <<>> }, ss : { [present |-> FALSE, digits |-> <<>>] },
             nl : BOOLEAN ]

\* int(text) of a text of decimal digits
RECURSIVE int(_)
int(d) == IF d = <<>> THEN 0
          ELSE 10 * int(SubSeq(d, 1, Len(d) - 1)) + d[Len(d)]

\* re.match(r"^(?:(\d+)-)?(\d{1,2}):(\d{2}):(\d{2})$", limit_str); the $
\* of re.match also matches before one newline that ends the text
timelimit_match(s) ==
    /\ s.kind = "time"
    /\ s.day.present => Len(s.day.digits) >= 1
    /\ Len(s.hh) \in {1, 2}
    /\ Len(s.mm) = 2
    /\ s.ss.present
    /\ Len(s.ss.digits) = 2

\* 0 <= hours <= 23 and 0 <= minutes <= 59 and 0 <= seconds <= 59
in_range(hours, minutes, seconds) ==
    /\ 0 <= hours /\ hours <= 23
    /\ 0 <= minutes /\ minutes <= 59
    /\ 0 <= seconds /\ seconds <= 59

\* (variant: the days are left out of the sum)
to_seconds_no_days(days, hours, minutes, seconds) ==
    (hours * 60 + minutes) * 60 + seconds

\* ((days * 24 + hours) * 60 + minutes) * 60 + seconds
to_seconds(days, hours, minutes, seconds) ==
    ((days * 24 + hours) * 60 + minutes) * 60 + seconds

RuntimeError == [kind |-> "RuntimeError", val |-> 0]

parse_timelimit(s) ==
    IF s.kind = "UNLIMITED" /\ ~s.nl THEN [kind |-> "value", val |-> -1]
    ELSE IF timelimit_match(s)
      THEN LET days    == IF s.day.present THEN int(s.day.digits) ELSE 0
               hours   == int(s.hh)
               minutes == int(s.mm)
               seconds == int(s.ss.digits)
           IN  IF in_range(hours, minutes, seconds)
                 THEN [kind |-> "value",
                       val |-> to_seconds(days, hours, minutes, seconds)]
                 ELSE RuntimeError
    ELSE RuntimeError

\* no supervisor is constructed
NoSupervisor ==
    /\ pc = [p \in Procs |-> "absent"]
    /\ jobid = [p \in Procs |-> None]
    /\ cmd = [p \in Procs |-> "None"]
    /\ times_criteria = [p \in Procs |-> 0]
    /\ cwd_exists = TRUE
    /\ execs_ok = TRUE
    /\ allow = [p \in Procs |-> FALSE]
    /\ ok = [p \in Procs |-> FALSE]
    /\ state = [p \in Procs |-> "PENDING"]
    /\ last_state = [p \in Procs |-> "PENDING"]
    /\ last_state_times = [p \in Procs |-> 0]
    /\ result = [p \in Procs |-> "none"]
    /\ lockfile = FALSE
    /\ norestart = FALSE
    /\ polls = [p \in Procs |-> 0]
    /\ informs = [p \in Procs |-> 0]
    /\ launched = [p \in Procs |-> 0]
    /\ hist = [p \in Procs |-> <<>>]
    /\ delivered = [p \in Procs |-> 0]
    /\ cap = 0
    /\ probe_in = [raised |-> FALSE, bout |-> <<>>]
    /\ probe_out = "none"
    /\ EnvQuiet

\* parse_timelimit is about to be called once on some string
InitTime ==
    /\ NoSupervisor
    /\ AuxIdle
    /\ limit_str \in LimitStrs
    /\ timelimit = [kind |-> "none", val |-> 0]
    /\ nodelist_str = [groups |-> <<>>, unclosed |-> FALSE,
                       trailing_comma |-> FALSE, missing_comma |-> FALSE]
    /\ nodelist = [kind |-> "none", keys |-> {}, members |-> {}]

\* one call of parse_timelimit
ParseTimelimit ==
    /\ timelimit.kind = "none"
    /\ timelimit' = parse_timelimit(limit_str)
    /\ UNCHANGED <<pc, conf, loopv, allow, ok, result, lockfile, norestart,
                   launched, probev, envv, limit_str, nodelist_str, nodelist,
                   auxv>>

SpecTime == InitTime /\ [][ParseTimelimit]_vars

\* the number a text of one or two digits writes
TwoDigits(d) == IF Len(d) = 1 THEN d[1] ELSE 10 * d[1] + d[2]

\* a text [D-]HH:MM:SS: an optional day number and '-', an hour of one or
\* two digits, minutes and seconds of two digits; with nothing after it
IsTimeLine(s) ==
    /\ s.kind = "time"
    /\ s.day.present => s.day.digits # <<>>
    /\ Len(s.hh) \in {1, 2}
    /\ Len(s.mm) = 2
    /\ s.ss.present /\ Len(s.ss.digits) = 2
IsTime(s) == IsTimeLine(s) /\ ~s.nl

\* the fields of such a text are within 0..23, 0..59, 0..59
FieldsInRange(s) ==
    /\ TwoDigits(s.hh) <= 23
    /\ TwoDigits(s.mm) <= 59
    /\ TwoDigits(s.ss.digits) <= 59

\* C25: 'UNLIMITED' gives -1, and a text [D-]HH:MM:SS with fields in range
\* gives D days + HH hours + MM minutes + SS seconds in seconds, D being 0
\* when there is no day part.
C25_TimelimitValue ==
    LET s == limit_str
        D == IF ~s.day.present THEN 0 ELSE TwoDigits(s.day.digits)
    IN  timelimit.kind # "none" =>
          /\ (s.kind = "UNLIMITED" /\ ~s.nl)
                => timelimit = [kind |-> "value", val |-> -1]
          /\ (IsTime(s) /\ FieldsInRange(s))
                => timelimit =
                     [kind |-> "value",
                      val |-> D * 86400 + TwoDigits(s.hh) * 3600
                                + TwoDigits(s.mm) * 60 + TwoDigits(s.ss.digits)]

C25_Witness ==
    /\ timelimit = [kind |-> "value", val |-> 210615]
    /\ limit_str.day.digits = <<2>>
    /\ limit_str.hh = <<1, 0>>
    /\ limit_str.mm = <<3, 0>>
    /\ limit_str.ss.digits = <<1, 5>>

\* C26, as the claim makes it: a text that is not [D-]HH:MM:SS (nor
\* UNLIMITED), or whose hours, minutes or seconds are out of range, raises
\* RuntimeError.  SpecTime violates it on a time followed by a newline, which
\* is read as the time without the newline.
C26_RejectsMalformed ==
    LET s == limit_str
    IN  ( /\ timelimit.kind # "none"
          /\ ~(s.kind = "UNLIMITED" /\ ~s.nl)
          /\ ~IsTime(s) \/ ~FieldsInRange(s) )
        => timelimit = RuntimeError

\* ===================================================== info.py: parse_nodes
\* A node list is modelled by its parts: the groups name[items] in order,
\* each item an index a or a range a-b; whether the last bracket is left
\* open, whether a comma follows the last group, and whether the comma
\* between the first two groups is missing.

HostNames == {"host", "node"}

NodeItems ==
    [range : {FALSE}, a : 1 .. MaxIndex, b : {0}]
      \cup [range : {TRUE}, a : 1 .. MaxIndex, b : 1 .. MaxIndex]

NodeGroups ==
    [ name : HostNames,
      items : UNION { [1 .. n -> NodeItems] : n \in 0 .. MaxItems } ]

NodelistStrs ==
    { s \in [ groups : UNION { [1 .. n -> NodeGroups] : n \in 1 .. MaxGroups },
              unclosed : BOOLEAN, trailing_comma : BOOLEAN,
              missing_comma : BOOLEAN ] :
        s.missing_comma => Len(s.groups) >= 2 }

\* re.match of the pattern of parse_nodes: groups [a-z]+[...] with closed
\* brackets, a comma between two groups and nothing after the last; between
\* the brackets the pattern lets any run of items and commas pass, the empty
\* one too
nodelist_match(s) == ~s.unclosed /\ ~s.trailing_comma /\ ~s.missing_comma

\* the item loop: what one item adds to the set of its host
item_indices(it) == IF it.range THEN it.a .. it.b ELSE {it.a}

\* the set the item loop builds for one group
group_indices(g) == UNION { item_indices(g.items[i]) : i \in DOMAIN g.items }

\* nr_s.split(',') of an empty bracket is [''], which is neither a range nor
\* an integer
has_empty_item(g) == g.items = <<>>

\* parse_nodes: 'nodelist[nn] = set()' starts every group with an empty
\* set, so the dictionary keeps for a name the set of its last group
parse_nodes(s) ==
    IF ~nodelist_match(s)
      THEN [kind |-> "RuntimeError", keys |-> {}, members |-> {}]
    ELSE IF \E i \in DOMAIN s.groups : has_empty_item(s.groups[i])
      THEN [kind |-> "RuntimeError", keys |-> {}, members |-> {}]
    ELSE LET last(nn) == CHOOSE i \in DOMAIN s.groups :
                           /\ s.groups[i].name = nn
                           /\ \A j \in DOMAIN s.groups :
                                 s.groups[j].name = nn => j <= i
             names == { s.groups[i].name : i \in DOMAIN s.groups }
         IN  [kind |-> "value", keys |-> names,
              members |-> UNION { { <<nn, k>> :
                                     k \in group_indices(s.groups[last(nn)]) } :
                                  nn \in names }]

\* parse_nodes is about to be called once on some node list
InitNodes ==
    /\ NoSupervisor
    /\ AuxIdle
    /\ limit_str = [kind |-> "text", day |-> [present |-> FALSE, digits |-> <<>>],
                    hh |-> <<>>, mm |-> <<>>,
                    ss |-> [present |-> FALSE, digits |-> <<>>], nl |-> FALSE]
    /\ timelimit = [kind |-> "none", val |-> 0]
    /\ nodelist_str \in NodelistStrs
    /\ nodelist = [kind |-> "none", keys |-> {}, members |-> {}]

\* one call of parse_nodes
ParseNodes ==
    /\ nodelist.kind = "none"
    /\ nodelist' = parse_nodes(nodelist_str)
    /\ UNCHANGED <<pc, conf, loopv, allow, ok, result, lockfile, norestart,
                   launched, probev, envv, limit_str, timelimit, nodelist_str,
                   auxv>>

SpecNodes == InitNodes /\ [][ParseNodes]_vars

\* C27: a node list of groups name[spec], every spec a non-empty list of
\* indices and ranges, yields for each host name exactly the indices and
\* the integers of the ranges listed for that name; a list with an unclosed
\* bracket, a trailing comma or a missing comma between hosts raises
\* RuntimeError.  Stated as the claim makes it; SpecNodes violates it on a
\* list that names a host twice.
C27_ParseNodes ==
    LET s == nodelist_str
        listed(nn) == UNION { group_indices(s.groups[i]) :
                                i \in { j \in DOMAIN s.groups :
                                          s.groups[j].name = nn } }
    IN  nodelist.kind # "none" =>
          /\ (s.unclosed \/ s.trailing_comma \/ s.missing_comma)
                => nodelist.kind = "RuntimeError"
          /\ ( /\ ~s.unclosed /\ ~s.trailing_comma /\ ~s.missing_comma
               /\ \A i \in DOMAIN s.groups : s.groups[i].items # <<>> )
                => /\ nodelist.kind = "value"
                   /\ nodelist.keys = { s.groups[i].name : i \in DOMAIN s.groups }
                   /\ \A nn \in nodelist.keys :
                         { m[2] : m \in { x \in nodelist.members : x[1] = nn } }
                           = listed(nn)

\* ------------------------------------------------------- the dwell tracker

NotPending(o) == o # "PENDING"

\* C28: the polls that observe PENDING leave no trace in the dwell tracker:
\* it is what the other polls alone would have made it (so in X, PENDING, X
\* the second X counts on from the first), and polls that all observe
\* PENDING never end the loop.
C28_PendingLeavesTracker ==
    LET h == hist[1]
        q == SelectSeq(h, NotPending)
    IN  pc[1] \in {"loop", "returned", "checkcmd", "done"} =>
          /\ <<last_state[1], last_state_times[1]>> = TrackerAfter(q, Len(q))
          /\ AllSame(h, "PENDING") => (pc[1] = "loop" /\ result[1] = "none")

C28_Witness ==
    /\ hist[1] = <<"SUSPENDED", "SUSPENDED", "PENDING", "SUSPENDED">>
    /\ last_state[1] = "SUSPENDED"
    /\ last_state_times[1] = 2
    /\ pc[1] = "loop"

\* C29: a poll that observes a state of the dwelling kind (in progress, not
\* PENDING, not RUNNING) other than the last-seen one makes the tracker
\* (that state, 0) and the loop goes on; the count grows only by one and
\* only at a poll whose state is the last-seen one; and such a poll ends
\* the loop with failure only with a count above the threshold.
C29_ChangeResetsTracker ==
    [][(pc[1] = "loop" /\ Len(hist'[1]) = Len(hist[1]) + 1) =>
         LET o == hist'[1][Len(hist'[1])]
         IN  /\ (o \in Dwellers /\ o # last_state[1])
                   => /\ last_state'[1] = o
                      /\ last_state_times'[1] = 0
                      /\ pc'[1] = "loop"
                      /\ result'[1] = "none"
             /\ last_state_times'[1] > last_state_times[1]
                   => /\ o = last_state[1]
                      /\ o \in Dwellers
                      /\ last_state_times'[1] = last_state_times[1] + 1
             /\ (o \in Dwellers /\ result'[1] = "False")
                   => /\ o = last_state[1]
                      /\ last_state_times'[1] > times_criteria[1]
             /\ (o \in Dwellers /\ last_state_times'[1] > times_criteria[1])
                   => result'[1] = "False"]_vars

C29_Witness ==
    /\ hist[1] = <<"SUSPENDED", "SUSPENDED", "UNKNOWN_STATE">>
    /\ times_criteria[1] = 1
    /\ last_state[1] = "UNKNOWN_STATE"
    /\ last_state_times[1] = 0
    /\ pc[1] = "loop"

\* C30: for every state S of the enumeration, the single status line
\* <jobid>|S| makes the probe return S.  Stated as the claim makes it;
\* SpecProbe violates it on NODE_FAIL, whose underscore is no letter.
C30_RecognisesEveryState ==
    \A S \in SStates :
        ( /\ Probed
          /\ probe_in.bout = << [digits |-> TRUE, jid |-> jobid[1], tok |-> S] >> )
        => probe_out = S

\* ------------------------------------------------- the follow-up command

\* C31: a supervisor with a job id and no follow-up command, otherwise
\* well configured and with no lock file in its way, is not refused at the
\* entry of its block.  Stated as the claim makes it; Spec violates it,
\* check() fails for a command that is None.
C31_CommandOptional ==
    ( /\ cmd[1] = "None"
      /\ jobid[1] # None
      /\ cwd_exists
      /\ execs_ok
      /\ ~lockfile )
    => pc[1] # "raised"

\* ====================================================== sbatch.py: Sbatch.run
\* What sbatch printed is modelled by its parts: whether it starts with the
\* words 'Submitted batch job ', the digits that follow them (n), and the
\* further words after a blank (rest), each a number or not.

Word == [num |-> FALSE, digits |-> <<>>]
Number34 == [num |-> TRUE, digits |-> <<3, 4>>]

RunInputs ==
    [ prefix : BOOLEAN,
      n : { <<>>, <<7>>, <<1, 2>> },
      rest : { <<>>, <<Word>>, <<Number34>>, <<Word, Number34>>,
               <<Number34, Word>> },
      run_poll : BOOLEAN,
      poller_ok : BOOLEAN ]

\* re.match(r'Submitted batch job \d+', bout): anchored at the start only
submitted_match(b) == b.prefix /\ b.n # <<>>

\* bout.split()[-1]
last_token(b) ==
    IF b.rest = <<>> THEN [num |-> TRUE, digits |-> b.n]
    ELSE b.rest[Len(b.rest)]

\* a call of Sbatch.run has submitted the job file and holds sbatch's output
InitRun ==
    /\ NoSupervisor
    /\ InfoIdle
    /\ ObjIdle
    /\ run_in \in RunInputs
    /\ run_pc = "submitted"
    /\ run_jobid = None
    /\ detached = None

\* Sbatch.run from the re.match to the test of run_poll: the job id is
\* int() of the last word, ValueError and no match become RuntimeError
ParseJobid ==
    /\ run_pc = "submitted"
    /\ IF submitted_match(run_in) /\ last_token(run_in).num
         THEN /\ run_jobid' = int(last_token(run_in).digits)
              /\ run_pc' = IF run_in.run_poll THEN "parsed" ELSE "returned"
         ELSE /\ run_pc' = "raised"
              /\ UNCHANGED run_jobid
    /\ UNCHANGED <<pc, conf, loopv, allow, ok, result, lockfile, norestart,
                   launched, probev, envv, infov, objv, run_in, detached>>

\* the run_poll block of Sbatch.run: poller.jobid = jobid, and
\* detach_start, which starts the poller unless its check fails
DetachStart ==
    /\ run_pc = "parsed"
    /\ detached' = IF run_in.poller_ok THEN run_jobid ELSE None
    /\ run_pc' = "returned"
    /\ UNCHANGED <<pc, conf, loopv, allow, ok, result, lockfile, norestart,
                   launched, probev, envv, infov, objv, run_in, run_jobid>>

NextRun ==
    \/ ParseJobid
    \/ DetachStart

SpecRun == InitRun /\ [][NextRun]_vars

\* the output is 'Submitted batch job <n>' and nothing else
IsSubmitted(b) == b.prefix /\ b.n # <<>> /\ b.rest = <<>>

\* C32: run returns the job id <n> of the output 'Submitted batch job <n>';
\* an output not of that form raises RuntimeError and no poller is
\* detached; a poller is detached only when polling was asked for and the
\* job id is known, and it carries that job id.  Stated as the claim makes
\* it; SpecRun violates it on an output with a number after the job id.
C32_SubmissionBeforeSupervision ==
    /\ run_pc \in {"parsed", "returned"}
          => (IsSubmitted(run_in) /\ run_jobid = TwoDigits(run_in.n))
    /\ (run_pc # "submitted" /\ ~IsSubmitted(run_in))
          => (run_pc = "raised" /\ detached = None)
    /\ detached # None
          => (run_in.run_poll /\ run_jobid # None /\ detached = run_jobid)

\* ------------------------------------------------------ exit-time decisions

\* C33: when the block exit is over, the follow-up command has been
\* launched (Popen was called for it; the call fails when the system cannot
\* start the command) exactly when the loop called ok(), the final state is
\* no failure state and not COMPLETED, NORESTART is absent and a command is
\* configured: so after TIMEOUT and after a state seen too long, never
\* after COMPLETED; and it is launched at most once.
C33_ExactRelaunchCondition ==
    LET cond == /\ ok[1]
                /\ state[1] \notin failure_states
                /\ state[1] # "COMPLETED"
                /\ ~norestart
                /\ cmd[1] # "None"
        stuck == /\ state[1] \in Dwellers
                 /\ result[1] = "False"
                 /\ hist[1][Len(hist[1])] # RAISE
    IN  /\ launched[1] <= 1
        /\ launched[1] = 1 => pc[1] = "done"
        /\ pc[1] = "done" => (launched[1] = 1 <=> cond)
        /\ pc[1] = "exit_raised" => (cond /\ ~popen_ok)
        /\ (pc[1] = "done" /\ ~norestart /\ (state[1] = "TIMEOUT" \/ stuck))
              => launched[1] = 1
        /\ state[1] = "COMPLETED" => launched[1] = 0

C33_Witness ==
    /\ hist[1] = <<"SUSPENDED", "SUSPENDED">>
    /\ times_criteria[1] = 0
    /\ result[1] = "False"
    /\ pc[1] = "done"
    /\ launched[1] = 1

\* the loop of supervisor p ended because the probe raised
Faulted(p) ==
    /\ pc[p] \in {"returned", "done"}
    /\ hist[p] # <<>>
    /\ hist[p][Len(hist[p])] = RAISE

\* C34: when the loop ended because the probe raised, block exit leaves the
\* lock file as it is and launches nothing, and from then on, as long as
\* nothing outside has removed the file, a supervisor that begins its
\* acquisition for the same path finds the file and raises; once the file
\* is gone the acquisition passes.
C34_StaleLockAfterFault ==
    [][ \A p \in Procs : \A q \in Procs \ {p} :
          /\ Faulted(p) =>
                /\ ~ok[p]
                /\ launched[p] = 0 /\ launched'[p] = 0
                /\ (pc[p] = "returned" /\ pc'[p] # "returned")
                      => (pc'[p] = "done" /\ lockfile' = lockfile)
          /\ (Faulted(p) /\ pc[p] = "done" /\ pc[q] = "init" /\ ~ext_unlinked)
                => /\ lockfile
                   /\ pc'[q] # "init" => pc'[q] = "raised"
          /\ (Faulted(p) /\ pc[p] = "done" /\ pc[q] = "init" /\ ~lockfile
                 /\ pc'[q] # "init")
                => pc'[q] = "touch" ]_vars

C34_Witness ==
    /\ Faulted(1) /\ pc[1] = "done"
    /\ lockfile /\ ~ext_unlinked
    /\ pc[2] = "raised"
    /\ launched[1] = 0

\* supervisor q has created the lock file and not deleted it
HoldsLock(q) ==
    \/ pc[q] \in {"entered", "loop", "returned"}
    \/ pc[q] = "done" /\ ~ok[q]

\* C35: the follow-up command is launched only after the launching
\* supervisor has deleted its lock file: at the launch the path is free,
\* unless another supervisor that holds the lock itself has created the
\* file; the launching supervisor never creates it again.
C35_ReleasePrecedesRelaunch ==
    [][ \A p \in Procs :
          launched'[p] # launched[p] =>
            /\ pc[p] = "checkcmd"
            /\ lockfile => \E q \in Procs \ {p} : HoldsLock(q)
            /\ lockfile' = lockfile ]_vars

C35_Witness ==
    /\ launched[1] = 1
    /\ pc[1] = "done"
    /\ pc[2] = "init"
    /\ ~lockfile
    /\ ~ext_unlinked

\* C36: while the loop is polling the dwell count lies between 0 and the
\* threshold, it is 0 when the state last recorded is RUNNING or the
\* initial PENDING, and a poll leaves it, adds 1 to it or sets it to 0.
C36_DwellCounterBound ==
    [][ /\ pc[1] = "loop" =>
              /\ 0 <= last_state_times[1]
              /\ last_state_times[1] <= times_criteria[1]
              /\ last_state[1] \in {"RUNNING", "PENDING"}
                    => last_state_times[1] = 0
        /\ \/ last_state_times'[1] = last_state_times[1]
           \/ last_state_times'[1] = last_state_times[1] + 1
           \/ last_state_times'[1] = 0 ]_vars

C36_Witness ==
    /\ pc[1] = "loop"
    /\ times_criteria[1] = 1
    /\ last_state_times[1] = 1
    /\ last_state[1] = "SUSPENDED"

\* C37: when the probe has raised, the supervisor's state is the one the
\* probe before it reported (every earlier probe of the loop succeeded),
\* PENDING when the failing probe was the first, and it stays so from the
\* return of the loop to the end of the block exit.
C37_FailedProbeKeepsState ==
    Faulted(1) =>
      LET n == Len(hist[1])
      IN  /\ \A k \in 1 .. n - 1 : hist[1][k] # RAISE
          /\ state[1] = IF n = 1 THEN "PENDING" ELSE hist[1][n - 1]

C37_Witness ==
    /\ Faulted(1)
    /\ pc[1] = "done"
    /\ hist[1] = <<"RUNNING", "SUSPENDED", RAISE>>
    /\ state[1] = "SUSPENDED"

\* --------------------------------------------------------- Platform.update
\* the nodes a cluster or a user's list can name: host "a" with the indices
\* 1 .. MaxIndex and host "b" with index 1
AllNodes == { <<"a", i>> : i \in 1 .. MaxIndex } \cup { <<"b", 1>> }

\* the set of Node(name, id).stringify() over the items of a dictionary
\* dict[str, set[int]] (a node is written <<name, id>>)
long(d) == UNION { { <<h, i>> : i \in d[h] } : h \in DOMAIN d }

\* the dictionary built from a set of stringified nodes with
\* Node.from_string: a key for every host named, with the set of its indices
dict_of(L) == [ h \in { n[1] : n \in L } |-> { n[2] : n \in { m \in L : m[1] = h } } ]

\* the dictionaries the user or sinfo can give
PlatformDicts == { dict_of(L) : L \in SUBSET AllNodes }

\* the set arithmetic of update on the three long sets.  In the branch of
\* an empty include list 'long_usr_nodes_include = long_nodelist' binds a
\* second name to the same set object, so the difference_update that
\* follows removes the excluded nodes from long_nodelist too.
resolve(inc, exc, nl) ==
    LET was_empty   == inc = {}
        nonexistent == (inc \ nl) \cup (exc \ nl)
        inc1        == inc \ nonexistent
        exc1        == exc \ nonexistent
        inc2        == IF was_empty THEN nl \ exc1 ELSE inc1
        nl2         == IF was_empty THEN nl \ exc1 ELSE nl
        exc2        == nl2 \ inc2
    IN  IF inc1 \cap exc1 # {} THEN [ok |-> FALSE, include |-> {}, exclude |-> {}]
        ELSE IF inc2 = {} THEN [ok |-> FALSE, include |-> {}, exclude |-> {}]
        ELSE [ok |-> TRUE, include |-> inc2, exclude |-> exc2]

\* a Platform constructed with the user's two lists, on a cluster whose
\* sinfo reports some node list, update not yet called
InitPlatform ==
    /\ NoSupervisor
    /\ InfoIdle
    /\ RunIdle
    /\ NodeDictIdle
    /\ ShellIdle
    /\ platform \in [ pc : {"constructed"}, execs_ok : BOOLEAN,
                       usr_nodes_include : PlatformDicts,
                       usr_nodes_exclude : PlatformDicts,
                       nodelist : PlatformDicts,
                       nodes_include : {<<>>}, nodes_exclude : {<<>>} ]

\* Platform.update: False when an executable is missing, else the node
\* list is read and the two lists are resolved against it
PlatformUpdate ==
    /\ platform.pc = "constructed"
    /\ LET r == resolve(long(platform.usr_nodes_include),
                        long(platform.usr_nodes_exclude),
                        long(platform.nodelist))
       IN  platform' =
             IF ~platform.execs_ok \/ ~r.ok
               THEN [platform EXCEPT !.pc = "failed"]
               ELSE [platform EXCEPT !.pc = "updated",
                                     !.nodes_include = dict_of(r.include),
                                     !.nodes_exclude = dict_of(r.exclude)]
    /\ UNCHANGED <<pc, conf, loopv, allow, ok, result, lockfile, norestart,
                   launched, probev, envv, infov, runv, nodedict, shell,
                   shell_calls>>

SpecPlatform == InitPlatform /\ [][PlatformUpdate]_vars

\* C38: after an update that succeeded nodes_include and nodes_exclude have
\* no node in common, together they are the node list, and every node of
\* the cluster that the user listed for exclusion is in nodes_exclude and
\* not in nodes_include; update fails when an existing node is in both of
\* the user's lists and when no node is left to run on.
C38_IncludeExcludeResolution ==
    LET inc  == long(platform.usr_nodes_include) \cap long(platform.nodelist)
        exc  == long(platform.usr_nodes_exclude) \cap long(platform.nodelist)
        incl == long(platform.nodes_include)
        excl == long(platform.nodes_exclude)
    IN  /\ platform.pc = "updated" =>
              /\ incl \cap excl = {}
              /\ incl \cup excl = long(platform.nodelist)
              /\ exc \subseteq excl
              /\ exc \cap incl = {}
        /\ (platform.pc # "constructed" /\ inc \cap exc # {})
              => platform.pc = "failed"
        /\ platform.pc = "updated" => incl # {}

\* ---------------------------------------------------------- NodeDict.__str__
\* the dictionaries tried: the hosts "a" and "b", each absent or with any
\* set of indices out of 1 .. MaxIndex + 1; the items come in the order a, b
NodeDicts ==
    UNION { [ H -> SUBSET (1 .. MaxIndex + 1) ] : H \in SUBSET {"a", "b"} }

\* the hosts whose items the loop of __str__ reaches before that of h
UpTo(h) == IF h = "a" THEN {"a"} ELSE {"a", "b"}

\* the runs 'start-end' that the loop over sorted(nums) writes
Runs(S) ==
    { r \in S \X S : /\ r[1] <= r[2]
                      /\ \A i \in r[1] .. r[2] : i \in S
                      /\ r[1] - 1 \notin S
                      /\ r[2] + 1 \notin S }

\* what __str__ writes for one host: the host name followed by the number
\* when the set has one element, else by the runs between brackets
numspec(S) ==
    [kind |-> IF Cardinality(S) = 1 THEN "single" ELSE "list", specs |-> Runs(S)]

\* sorted_nums[0] of an empty set raises IndexError
str_raises(d) == \E h \in DOMAIN d : d[h] = {}

\* the text of str(d) when it does not raise
str_text(d) == [ h \in DOMAIN d |-> numspec(d[h]) ]

\* the dictionary after str(d): for a set of one element the number is
\* taken with nums.pop(), which removes it from the set; the items after
\* an empty set are not reached
str_leaves(d) ==
    [ h \in DOMAIN d |->
        IF /\ Cardinality(d[h]) = 1
           /\ \A g \in UpTo(h) \cap DOMAIN d : d[g] # {}
          THEN {} ELSE d[h] ]

\* NodeDict.parse_str of a text written by __str__: a key per host, the
\* number or the numbers of every run
parse_str(t) ==
    [ h \in DOMAIN t |-> UNION { r[1] .. r[2] : r \in t[h].specs } ]

\* a NodeDict just built
InitNodeDict ==
    /\ NoSupervisor
    /\ InfoIdle
    /\ RunIdle
    /\ PlatformIdle
    /\ ShellIdle
    /\ \E d \in NodeDicts :
         nodedict = [calls |-> 0, orig |-> d, d |-> d,
                     first |-> [kind |-> "none", text |-> <<>>],
                     out |-> [kind |-> "none", text |-> <<>>]]

\* one call of str() on the dictionary
NodeDictStr ==
    /\ nodedict.calls < MaxStr
    /\ LET d == nodedict.d
           o == IF str_raises(d) THEN [kind |-> "raise", text |-> <<>>]
                ELSE [kind |-> "text", text |-> str_text(d)]
       IN  nodedict' = [nodedict EXCEPT !.calls = @ + 1,
                                        !.d = str_leaves(d),
                                        !.first = IF nodedict.calls = 0 THEN o ELSE @,
                                        !.out = o]
    /\ UNCHANGED <<pc, conf, loopv, allow, ok, result, lockfile, norestart,
                   launched, probev, envv, infov, runv, platform, shell,
                   shell_calls>>

SpecNodeDict == InitNodeDict /\ [][NodeDictStr]_vars

\* C39: str() leaves the dictionary as it was; and when no index set of
\* the dictionary is empty it gives a text, the same text when called
\* again, and parse_str of the text is the dictionary.
C39_StrHasNoEffect ==
    nodedict.calls >= 1 =>
      /\ nodedict.d = nodedict.orig
      /\ (\A h \in DOMAIN nodedict.orig : nodedict.orig[h] # {}) =>
            /\ nodedict.out.kind = "text"
            /\ nodedict.out = nodedict.first
            /\ parse_str(nodedict.out.text) = nodedict.d

\* ------------------------------------------------------------------- Shell
\* Shell.__connect: nothing in local mode or when connected already; else
\* ssh.connect, which sets __connected when it succeeds (c_ok) and raises
\* when it does not; reading a __host that was never set raises as well
connect(sh, c_ok) ==
    IF sh.local \/ sh.connected THEN [raised |-> FALSE, sh |-> sh]
    ELSE IF c_ok /\ sh.has_host THEN [raised |-> FALSE, sh |-> [sh EXCEPT !.connected = TRUE]]
    ELSE [raised |-> TRUE, sh |-> sh]

\* Shell.__disconnect: nothing in local mode or when not connected; else
\* ssh.close() and __connected = False
disconnect(sh) ==
    IF sh.local \/ ~sh.connected THEN sh ELSE [sh EXCEPT !.connected = FALSE]

\* Shell.configure(local, ...): disconnects, stores the mode, raises
\* ValueError when a remote host, user name, password or key file that the
\* mode needs is missing (~valid), and only then clears the two flags
configure(sh, local, valid) ==
    LET d == disconnect(sh)
    IN  IF ~local /\ ~valid
          THEN [raised |-> TRUE, sh |-> [d EXCEPT !.local = FALSE]]
          ELSE [raised |-> FALSE,
                sh |-> [local |-> local, has_host |-> d.has_host \/ ~local,
                        connected |-> FALSE, context_present |-> FALSE]]

\* Shell.remote_exec: connect when not connected, run the command with
\* ssh.exec_command (it raises on a client that is not connected and when
\* the server refuses the command, ~x_ok), then disconnect unless a 'with'
\* block is present
remote_exec(sh, c_ok, x_ok) ==
    LET c == connect(sh, c_ok)
    IN  IF c.raised THEN c
        ELSE IF ~c.sh.connected \/ ~x_ok THEN [raised |-> TRUE, sh |-> c.sh]
        ELSE [raised |-> FALSE,
              sh |-> IF c.sh.context_present THEN c.sh ELSE disconnect(c.sh)]

\* the rest of the model does not use the shell
ShellRest == <<pc, conf, loopv, allow, ok, result, lockfile, norestart,
               launched, probev, envv, infov, runv, platform, nodedict>>

\* the module's shell just after 'shell = Shell()'
InitShell ==
    /\ NoSupervisor
    /\ InfoIdle
    /\ RunIdle
    /\ PlatformIdle
    /\ NodeDictIdle
    /\ ShellIdle

\* a call of shell.configure (or of Shell(...), which the Singleton
\* metaclass turns into __init__ and so into configure)
ShellConfigure ==
    /\ shell_calls.n < MaxCalls
    /\ \E local \in BOOLEAN, valid \in BOOLEAN :
         LET r == configure(shell, local, valid)
         IN  /\ shell' = r.sh
             /\ shell_calls' = [shell_calls EXCEPT
                   !.n = @ + 1,
                   !.last = IF r.raised THEN "configure raised" ELSE "configure"]
    /\ UNCHANGED ShellRest

\* 'with shell:' is entered: __connect, then __context_present = True
ShellEnter ==
    /\ shell_calls.n < MaxCalls
    /\ \E c_ok \in BOOLEAN :
         LET c == connect(shell, c_ok)
         IN  IF c.raised
               THEN /\ shell' = c.sh
                    /\ shell_calls' = [shell_calls EXCEPT
                          !.n = @ + 1, !.last = "enter raised"]
               ELSE /\ shell' = [c.sh EXCEPT !.context_present = TRUE]
                    /\ shell_calls' = [shell_calls EXCEPT
                          !.n = @ + 1, !.depth = @ + 1, !.last = "enter"]
    /\ UNCHANGED ShellRest

\* a 'with shell:' block is left: __context_present = False, __disconnect
ShellExit ==
    /\ shell_calls.n < MaxCalls
    /\ shell_calls.depth > 0
    /\ shell' = disconnect([shell EXCEPT !.context_present = FALSE])
    /\ shell_calls' = [shell_calls EXCEPT
          !.n = @ + 1, !.depth = @ - 1, !.last = "exit"]
    /\ UNCHANGED ShellRest

\* a call of shell.remote_exec
ShellRemoteExec ==
    /\ shell_calls.n < MaxCalls
    /\ \E c_ok \in BOOLEAN, x_ok \in BOOLEAN :
         LET r == remote_exec(shell, c_ok, x_ok)
         IN  /\ shell' = r.sh
             /\ shell_calls' = [shell_calls EXCEPT
                   !.n = @ + 1,
                   !.last = IF r.raised THEN "remote_exec raised"
                            ELSE "remote_exec"]
    /\ UNCHANGED ShellRest

NextShell ==
    \/ ShellConfigure
    \/ ShellEnter
    \/ ShellExit
    \/ ShellRemoteExec

SpecShell == InitShell /\ [][NextShell]_vars

\* C40: a local shell is never connected; the shell is connected between
\* calls only while a 'with' block is open; a remote_exec made with no
\* 'with' block open leaves it disconnected; and configure leaves it
\* disconnected with the context flag cleared.
C40_ShellLifecycle ==
    /\ shell.local => ~shell.connected
    /\ shell.connected => shell_calls.depth > 0
    /\ ( /\ shell_calls.last \in {"remote_exec", "remote_exec raised"}
         /\ shell_calls.depth = 0 ) => ~shell.connected
    /\ shell_calls.last \in {"configure", "configure raised"}
          => (~shell.connected /\ ~shell.context_present)

====
